---- MODULE Spec2Model ----
(***************************************************************************)
(* Model of the OEE engine of app.py: load_data (record normaliser),       *)
(* add_oee_metrics (hours-per-day parameter), aggregate_oee (group         *)
(* roll-up) and the overall KPI block of main.                             *)
(*                                                                         *)
(* Numbers are exact rationals <<n, d>> in lowest terms with d > 0; the    *)
(* float NaN (pandas' missing value) is the pair <<0, 0>>.  Floating-point *)
(* rounding is abstracted away: every property below is about which        *)
(* formula the code evaluates, not about the last bit of the result.       *)
(* A data-frame is a sequence of rows; a row is a function from column     *)
(* names (the strings the code uses) to values.  The data set has no       *)
(* 'Date' column, which the code allows (lines 18, 187, 230, 405).         *)
(***************************************************************************)
EXTENDS Integers, Sequences, FiniteSets, TLC

(* ------------------------------ bounds -------------------------------- *)
MaxRecs == 2

(* --------------------------- rational numbers ------------------------- *)
NaN == <<0, 0>>

IsNaN(x) == x[2] = 0

Abs(n) == IF n < 0 THEN -n ELSE n

RECURSIVE Gcd(_, _)
Gcd(a, b) == IF b = 0 THEN a ELSE Gcd(b, a % b)

\* the rational n/d in lowest terms (d # 0)
R(n, d) ==
    LET g == Gcd(Abs(n), Abs(d))
        s == IF d < 0 THEN -1 ELSE 1
    IN  <<(s * n) \div g, (s * d) \div g>>

Num(n) == <<n, 1>>

\* float arithmetic: NaN is absorbing
Add(x, y) == IF IsNaN(x) \/ IsNaN(y) THEN NaN
             ELSE R(x[1] * y[2] + y[1] * x[2], x[2] * y[2])

Sub(x, y) == IF IsNaN(x) \/ IsNaN(y) THEN NaN
             ELSE R(x[1] * y[2] - y[1] * x[2], x[2] * y[2])

Mul(x, y) == IF IsNaN(x) \/ IsNaN(y) THEN NaN
             ELSE R(x[1] * y[1], x[2] * y[2])

\* x / y.  Every division of the code sits under a "denominator > 0" guard
\* (np.where / conditional expression), so the value for y = 0 is never
\* selected; it is NaN here.
Div(x, y) == IF IsNaN(x) \/ IsNaN(y) \/ y[1] = 0 THEN NaN
             ELSE R(x[1] * y[2], x[2] * y[1])

\* float comparisons: any comparison with NaN is False
Gt(x, y) == ~IsNaN(x) /\ ~IsNaN(y) /\ x[1] * y[2] > y[1] * x[2]

\* variants of clip: a missing lower bound, no clipping at all
ClipUpperOnly(x, lo, hi) ==
    IF IsNaN(x) THEN NaN
    ELSE IF Gt(x, hi) THEN hi
    ELSE x

ClipNothing(x, lo, hi) == x

\* Series.clip(lower, upper) / np.clip: NaN stays NaN
Clip(x, lo, hi) ==
    IF IsNaN(x) THEN NaN
    ELSE IF Gt(lo, x) THEN lo
    ELSE IF Gt(x, hi) THEN hi
    ELSE x

(* ------------------------------ inputs -------------------------------- *)
\* <<Machine, Product>> of the rows of the workbook
MachineProducts == {<<"M1", "P1">>, <<"M1", "P2">>, <<"M2", "P1">>}

\* lexicographic order of the text values that occur as group keys
SortedStrings == <<"M1", "M2", "P1", "P2">>

\* <<Production per unit, Reject per unit, Performance %, Working days,
\*   downtime>> of the rows of the workbook.  Production, rejects and working
\* days respect the data model (>= 0, rejects <= production); the code
\* validates nothing, and a performance above 1 or a negative downtime is
\* read as it stands.
Measures ==
    { <<Num(100), Num(10), R(9, 10),  Num(1), Num(10)>>,
      <<Num(50),  Num(0),  R(8, 10),  Num(1), Num(1)>>,
      <<Num(0),   Num(0),  R(9, 10),  Num(0), Num(3)>>,
      <<Num(50),  Num(0),  R(12, 10), Num(2), Num(-1)>> }

RawColumns == {"Machine", "Product", "Production per unit", "Reject per unit",
               "Performance %", "Working days", "downtime"}

RawRow(m, p, v) ==
    [c \in RawColumns |->
        CASE c = "Machine" -> m
          [] c = "Product" -> p
          [] c = "Production per unit" -> v[1]
          [] c = "Reject per unit" -> v[2]
          [] c = "Performance %" -> v[3]
          [] c = "Working days" -> v[4]
          [] c = "downtime" -> v[5]]

RawRows == {RawRow(mp[1], mp[2], v) : mp \in MachineProducts, v \in Measures}

RECURSIVE SeqsUpTo(_, _)
SeqsUpTo(S, n) ==
    IF n = 0 THEN {<<>>}
    ELSE LET shorter == SeqsUpTo(S, n - 1)
         IN  shorter \cup {Append(s, x) : s \in {t \in shorter : Len(t) = n - 1}, x \in S}

\* number_input(min_value=1.0, max_value=24.0, value=24.0)
DefaultHours == 24

HoursVals == {8, DefaultHours}

(* ---------------------------- data frames ----------------------------- *)
\* df[c] = v on one row
SetCol(r, c, v) == (c :> v) @@ r

\* variant: zero production gives quality 0 instead of NaN
LoadQualityZero(r) ==
    IF Gt(r["Production per unit"], Num(0))
    THEN Div(r["Good units"], r["Production per unit"])
    ELSE Num(0)

\* load_data, one row: Good units, Quality, Performance, Planned days
LoadQuality(r) ==
    IF Gt(r["Production per unit"], Num(0))
    THEN Div(r["Good units"], r["Production per unit"])
    ELSE NaN

LoadRow(r) ==
    LET r1 == SetCol(r, "Good units",
                     Sub(r["Production per unit"], r["Reject per unit"]))
        r2 == SetCol(r1, "Quality", LoadQuality(r1))
        r3 == SetCol(r2, "Performance", r2["Performance %"])
        r4 == SetCol(r3, "Planned days", r3["Working days"])
    IN  r4

load_data(raw) == [i \in 1..Len(raw) |-> LoadRow(raw[i])]

LoadedColumns == RawColumns \cup {"Good units", "Quality", "Performance", "Planned days"}

\* variant: scales the planned hours already on the row
PlannedHoursScaled(r, h) ==
    IF "Planned hours" \in DOMAIN r
    THEN Mul(r["Planned hours"], Num(h))
    ELSE Mul(r["Planned days"], Num(h))

\* add_oee_metrics, one row
PlannedHours(r, h) == Mul(r["Planned days"], Num(h))

RowAvailability(r) ==
    Clip(IF Gt(r["Planned hours"], Num(0))
         THEN Sub(Num(1), Div(r["downtime"], r["Planned hours"]))
         ELSE NaN,
         Num(0), Num(1))

\* variant: the planned hours overwrite 'Planned days'
MetricsRowOverDays(r, h) ==
    LET r0 == SetCol(r, "Planned days", PlannedHours(r, h))
        r1 == SetCol(r0, "Planned hours", r0["Planned days"])
        r2 == SetCol(r1, "Availability", RowAvailability(r1))
        r3 == SetCol(r2, "OEE",
                     Mul(Mul(r2["Availability"], r2["Performance"]), r2["Quality"]))
    IN  r3

MetricsRow(r, h) ==
    LET r1 == SetCol(r, "Planned hours", PlannedHours(r, h))
        r2 == SetCol(r1, "Availability", RowAvailability(r1))
        r3 == SetCol(r2, "OEE",
                     Mul(Mul(r2["Availability"], r2["Performance"]), r2["Quality"]))
    IN  r3

add_oee_metrics(d, h) == [i \in 1..Len(d) |-> MetricsRow(d[i], h)]

MetricColumns == LoadedColumns \cup {"Planned hours", "Availability", "OEE"}

(* ----------------------------- aggregation ---------------------------- *)
Range(s) == {s[i] : i \in 1..Len(s)}

\* the group key of a row: its values in the grouping columns
Key(r, cols) == [i \in 1..Len(cols) |-> r[cols[i]]]

Rank(s) == CHOOSE i \in 1..Len(SortedStrings) : SortedStrings[i] = s

\* lexicographic order on key tuples of equal length
RECURSIVE KeyLess(_, _)
KeyLess(k1, k2) ==
    /\ k1 # <<>>
    /\ \/ Rank(Head(k1)) < Rank(Head(k2))
       \/ Head(k1) = Head(k2) /\ KeyLess(Tail(k1), Tail(k2))

RECURSIVE SortKeys(_)
SortKeys(S) ==
    IF S = {} THEN <<>>
    ELSE LET m == CHOOSE k \in S : \A o \in S \ {k} : KeyLess(k, o)
         IN  <<m>> \o SortKeys(S \ {m})

\* df.groupby(group_cols): the distinct keys present, sorted, and the rows
\* of each
GroupKeys(d, cols) == SortKeys({Key(d[i], cols) : i \in 1..Len(d)})

\* variant: rows matched on the first grouping column only
MembersByFirstCol(d, cols, key) == {i \in 1..Len(d) : d[i][cols[1]] = key[1]}

Members(d, cols, key) == {i \in 1..Len(d) : Key(d[i], cols) = key}

\* pandas 'sum' over the rows S of a column (NaN skipped)
RECURSIVE ColSum(_, _, _)
ColSum(d, S, col) ==
    IF S = {} THEN Num(0)
    ELSE LET i == CHOOSE j \in S : TRUE
             v == d[i][col]
         IN  Add(IF IsNaN(v) THEN Num(0) ELSE v, ColSum(d, S \ {i}, col))

\* pandas 'mean' over the rows S of a column (NaN skipped; NaN if none left)
ColMean(d, S, col) ==
    LET T == {i \in S : ~IsNaN(d[i][col])}
    IN  IF T = {} THEN NaN ELSE Div(ColSum(d, T, col), Num(Cardinality(T)))

KeyCols(cols, key) ==
    [c \in Range(cols) |-> key[CHOOSE i \in 1..Len(cols) : cols[i] = c]]

\* groupby(...).agg(... 'sum') .reset_index(): one row of sums per group
GroupSums(d, cols, key) ==
    LET S == Members(d, cols, key)
    IN  ("Production_units" :> ColSum(d, S, "Production per unit"))
        @@ ("Good_units" :> ColSum(d, S, "Good units"))
        @@ ("Reject_units" :> ColSum(d, S, "Reject per unit"))
        @@ ("Downtime" :> ColSum(d, S, "downtime"))
        @@ ("Planned_hours" :> ColSum(d, S, "Planned hours"))
        @@ KeyCols(cols, key)

\* variant: mean of the members' per-record quality
GroupQualityMeanOfRatios(d, cols, key) == ColMean(d, Members(d, cols, key), "Quality")

GroupQuality(d, cols, key) ==
    LET a == GroupSums(d, cols, key)
    IN  IF Gt(a["Production_units"], Num(0))
        THEN Div(a["Good_units"], a["Production_units"])
        ELSE NaN

GroupAvailability(d, cols, key) ==
    LET a == GroupSums(d, cols, key)
    IN  Clip(IF Gt(a["Planned_hours"], Num(0))
             THEN Sub(Num(1), Div(a["Downtime"], a["Planned_hours"]))
             ELSE NaN,
             Num(0), Num(1))

\* tmp = df.groupby(group_cols).agg(Performance=('Performance', 'mean'))
GroupPerformance(d, cols, key) == ColMean(d, Members(d, cols, key), "Performance")

AggRow(d, cols, key) ==
    LET q == GroupQuality(d, cols, key)
        a == GroupAvailability(d, cols, key)
        p == GroupPerformance(d, cols, key)
    IN  ("Quality" :> q) @@ ("Availability" :> a) @@ ("Performance" :> p)
        @@ ("OEE" :> Mul(Mul(a, p), q))
        @@ GroupSums(d, cols, key)

\* grouping by a column the frame does not have: pandas raises KeyError
\* before any group is formed
MissingCols(cols) == {c \in Range(cols) : c \notin MetricColumns}

\* variant: unknown grouping columns are ignored
aggregate_oee_known_cols(d, cols) ==
    LET known == SelectSeq(cols, LAMBDA c : c \in MetricColumns)
        ks == GroupKeys(d, known)
    IN  IF known = <<>>
        THEN [err |-> "none", agg |-> <<>>]
        ELSE [err |-> "none",
              agg |-> [g \in 1..Len(ks) |-> AggRow(d, known, ks[g])]]

aggregate_oee(d, cols) ==
    IF MissingCols(cols) # {}
    THEN [err |-> "KeyError", agg |-> <<>>]
    ELSE LET ks == GroupKeys(d, cols)
         IN  [err |-> "none",
              agg |-> [g \in 1..Len(ks) |-> AggRow(d, cols, ks[g])]]

GroupColsVals == {<<"Machine">>, <<"Product">>, <<"Machine", "Product">>,
                  <<"Shift">>, <<"Machine", "Shift">>}

(* ---------------------------- overall KPIs ---------------------------- *)
All(d) == 1..Len(d)

OverallQuality(d) ==
    LET total_prod == ColSum(d, All(d), "Production per unit")
        total_good == ColSum(d, All(d), "Good units")
    IN  IF Gt(total_prod, Num(0)) THEN Div(total_good, total_prod) ELSE NaN

OverallAvailability(d) ==
    LET total_downtime == ColSum(d, All(d), "downtime")
        total_planned_hours == ColSum(d, All(d), "Planned hours")
        a == IF Gt(total_planned_hours, Num(0))
             THEN Sub(Num(1), Div(total_downtime, total_planned_hours))
             ELSE NaN
    IN  IF ~IsNaN(a) THEN Clip(a, Num(0), Num(1)) ELSE NaN

\* np.average(values, weights) = sum(values * weights) / sum(weights)
RECURSIVE WeightedSum(_, _, _, _)
WeightedSum(d, S, col, wcol) ==
    IF S = {} THEN Num(0)
    ELSE LET i == CHOOSE j \in S : TRUE
         IN  Add(Mul(d[i][col], d[i][wcol]), WeightedSum(d, S \ {i}, col, wcol))

OverallPerformance(d) ==
    LET total_prod == ColSum(d, All(d), "Production per unit")
    IN  IF Gt(total_prod, Num(0))
        THEN Div(WeightedSum(d, All(d), "Performance", "Production per unit"),
                 total_prod)
        ELSE NaN

OverallOEE(a, p, q) ==
    IF ~(IsNaN(a) \/ IsNaN(p) \/ IsNaN(q)) THEN Mul(Mul(a, p), q) ELSE NaN

OverallKPIs(d) ==
    LET q == OverallQuality(d)
        a == OverallAvailability(d)
        p == OverallPerformance(d)
    IN  [quality |-> q, availability |-> a, performance |-> p,
         oee |-> OverallOEE(a, p, q)]

NoKPIs == [quality |-> NaN, availability |-> NaN, performance |-> NaN, oee |-> NaN]

(* ------------------------------- state -------------------------------- *)
\* df_raw         the frame load_data returned (cached by st.cache_data)
\* hours_per_day  the sidebar parameter
\* df             add_oee_metrics(df_raw, hours_per_day) of the current run
\* overall        the top-level KPIs of the current run
\* agg, group_cols, err   the last aggregate_oee call: its result, its
\*                grouping columns, and the exception it raised
\* twice          add_oee_metrics applied to df, its own output
\* ran            which of the calls have been made in the current run
VARIABLES df_raw, hours_per_day, df, overall, agg, group_cols, err, twice, ran

vars == <<df_raw, hours_per_day, df, overall, agg, group_cols, err, twice, ran>>

Init ==
    /\ df_raw \in {load_data(raw) : raw \in SeqsUpTo(RawRows, MaxRecs)}
    /\ hours_per_day = DefaultHours
    /\ df = add_oee_metrics(df_raw, hours_per_day)
    /\ overall = NoKPIs
    /\ agg = <<>>
    /\ group_cols = <<>>
    /\ err = "none"
    /\ twice = <<>>
    /\ ran = {}

\* the user changes the sidebar value: the script reruns from the top,
\* load_data is served from the cache, add_oee_metrics runs on df_raw
SetHours(h) ==
    /\ h # hours_per_day
    /\ hours_per_day' = h
    /\ df' = add_oee_metrics(df_raw, h)
    /\ overall' = NoKPIs
    /\ agg' = <<>>
    /\ group_cols' = <<>>
    /\ err' = "none"
    /\ twice' = <<>>
    /\ ran' = {}
    /\ UNCHANGED df_raw

\* main, "Top-Level KPIs"; an empty frame stops the script before
ComputeKPIs ==
    /\ df # <<>>
    /\ "kpis" \notin ran
    /\ overall' = OverallKPIs(df)
    /\ ran' = ran \cup {"kpis"}
    /\ UNCHANGED <<df_raw, hours_per_day, df, agg, group_cols, err, twice>>

\* a call aggregate_oee(df, cols)
Aggregate(cols) ==
    /\ cols # group_cols
    /\ LET res == aggregate_oee(df, cols)
       IN  /\ agg' = res.agg
           /\ err' = res.err
    /\ group_cols' = cols
    /\ ran' = ran \cup {"aggregate"}
    /\ UNCHANGED <<df_raw, hours_per_day, df, overall, twice>>

\* a call add_oee_metrics(df, hours_per_day) on the output of the first
Reapply ==
    /\ "reapply" \notin ran
    /\ twice' = add_oee_metrics(df, hours_per_day)
    /\ ran' = ran \cup {"reapply"}
    /\ UNCHANGED <<df_raw, hours_per_day, df, overall, agg, group_cols, err>>

Next ==
    \/ \E h \in HoursVals : SetHours(h)
    \/ ComputeKPIs
    \/ \E cols \in GroupColsVals : Aggregate(cols)
    \/ Reapply

Spec == Init /\ [][Next]_vars

(* ----------------------- vocabulary of the properties ----------------- *)
AggRan == "aggregate" \in ran /\ err = "none"

\* the records of df whose values in the grouping columns are those of g
MembersOf(g) == {i \in 1..Len(df) : \A c \in Range(group_cols) : df[i][c] = g[c]}

\* sum of a column over the records S of df, by index
RECURSIVE TotalUpTo(_, _, _)
TotalUpTo(n, S, col) ==
    IF n = 0 THEN Num(0)
    ELSE Add(TotalUpTo(n - 1, S, col), IF n \in S THEN df[n][col] ELSE Num(0))

Total(S, col) == TotalUpTo(Len(df), S, col)

\* sum of production * performance_ratio over the records S of df
RECURSIVE WeightedTotalUpTo(_, _)
WeightedTotalUpTo(n, S) ==
    IF n = 0 THEN Num(0)
    ELSE Add(WeightedTotalUpTo(n - 1, S),
             IF n \in S
             THEN Mul(df[n]["Production per unit"], df[n]["Performance %"])
             ELSE Num(0))

WeightedMean(S) ==
    Div(WeightedTotalUpTo(Len(df), S), Total(S, "Production per unit"))

SimpleMean(S, col) == Div(Total(S, col), Num(Cardinality(S)))

Clamp01(x) == IF Gt(Num(0), x) THEN Num(0) ELSE IF Gt(x, Num(1)) THEN Num(1) ELSE x

\* x <= y, false when either is undefined
Le(x, y) == ~IsNaN(x) /\ ~IsNaN(y) /\ x[1] * y[2] <= y[1] * x[2]

In01(x) == Le(Num(0), x) /\ Le(x, Num(1))

In01WhenDefined(x) == IsNaN(x) \/ In01(x)

(* ------------------------------- C1 ----------------------------------- *)
\* C1: the performance of every group returned by aggregate_oee is the
\* production-weighted mean of its members' performance_ratio,
\* sum(production * performance) / sum(production), whenever the group's
\* production is positive.
C1_WeightedPerformance ==
    AggRan =>
        \A g \in 1..Len(agg) :
            Gt(Total(MembersOf(agg[g]), "Production per unit"), Num(0))
            => agg[g]["Performance"] = WeightedMean(MembersOf(agg[g]))

(* ------------------------------- C2 ----------------------------------- *)
\* C2: when one group covers all the records, the OEE of the top-level
\* KPIs equals the OEE aggregate_oee computes for that group.
C2_OverallEqualsSingleGroup ==
    (AggRan /\ "kpis" \in ran /\ df # <<>> /\ Len(agg) = 1)
    => agg[1]["OEE"] = overall.oee

(* ------------------------------- C3 ----------------------------------- *)
\* C3: each group's quality is sum(good_units) / sum(production) over its
\* members when the production sum is positive, and its availability is
\* clamp(1 - sum(downtime) / sum(planned_hours), 0, 1) when the planned-hours
\* sum is positive: ratios of sums.
C3_RatioOfSums ==
    AggRan =>
        \A g \in 1..Len(agg) :
            LET S == MembersOf(agg[g])
                prod == Total(S, "Production per unit")
                good == Sub(prod, Total(S, "Reject per unit"))
                planned == Total(S, "Planned hours")
                down == Total(S, "downtime")
            IN  /\ Gt(prod, Num(0)) => agg[g]["Quality"] = Div(good, prod)
                /\ Gt(planned, Num(0))
                   => agg[g]["Availability"] = Clamp01(Sub(Num(1), Div(down, planned)))

\* a group whose ratio of sums differs from the mean of its members' ratios,
\* for quality and for availability
C3_Witness ==
    /\ AggRan
    /\ \E g \in 1..Len(agg) :
          LET S == MembersOf(agg[g])
          IN  /\ Cardinality(S) >= 2
              /\ \A i \in S : ~IsNaN(df[i]["Quality"]) /\ ~IsNaN(df[i]["Availability"])
              /\ ~IsNaN(agg[g]["Quality"])
              /\ agg[g]["Quality"] # SimpleMean(S, "Quality")
              /\ ~IsNaN(agg[g]["Availability"])
              /\ agg[g]["Availability"] # SimpleMean(S, "Availability")

(* ------------------------------- C4 ----------------------------------- *)
ClampedRecord(r, guarded) ==
    (guarded => Gt(r["Planned hours"], Num(0)))
    => /\ Gt(r["downtime"], r["Planned hours"]) => r["Availability"] = Num(0)
       /\ Gt(Num(0), r["downtime"]) => Le(r["Availability"], Num(1))

ClampedGroup(g, guarded) ==
    (guarded => Gt(g["Planned_hours"], Num(0)))
    => /\ Gt(g["Downtime"], g["Planned_hours"]) => g["Availability"] = Num(0)
       /\ Gt(Num(0), g["Downtime"]) => Le(g["Availability"], Num(1))

\* C4 as stated: every record with downtime > planned_hours has availability
\* exactly 0, every record with downtime < 0 has availability <= 1, and the
\* same for the groups' summed downtime and planned hours.
C4_ClampingAsStated ==
    /\ \A i \in 1..Len(df) : ClampedRecord(df[i], FALSE)
    /\ AggRan => \A g \in 1..Len(agg) : ClampedGroup(agg[g], FALSE)

\* C4 amended: the same, for records and groups with planned_hours > 0
\* (with planned_hours = 0 the availability is undefined).
C4_Clamping ==
    /\ \A i \in 1..Len(df) : ClampedRecord(df[i], TRUE)
    /\ AggRan => \A g \in 1..Len(agg) : ClampedGroup(agg[g], TRUE)

C4_Witness ==
    /\ AggRan
    /\ \E i \in 1..Len(df) :
          /\ Gt(df[i]["Planned hours"], Num(0))
          /\ Gt(df[i]["downtime"], df[i]["Planned hours"])
    /\ \E i \in 1..Len(df) :
          /\ Gt(df[i]["Planned hours"], Num(0))
          /\ Gt(Num(0), df[i]["downtime"])
    /\ \E g \in 1..Len(agg) :
          /\ Gt(agg[g]["Planned_hours"], Num(0))
          /\ Gt(agg[g]["Downtime"], agg[g]["Planned_hours"])

(* ------------------------------- C5 ----------------------------------- *)
\* C5 as stated: quality, availability and oee of every record (after
\* load_data and after add_oee_metrics) and of every group lie in [0,1]
\* whenever defined.
C5_UnitRangeAsStated ==
    /\ \A i \in 1..Len(df_raw) : In01WhenDefined(df_raw[i]["Quality"])
    /\ \A i \in 1..Len(df) :
          /\ In01WhenDefined(df[i]["Quality"])
          /\ In01WhenDefined(df[i]["Availability"])
          /\ In01WhenDefined(df[i]["OEE"])
    /\ AggRan =>
          \A g \in 1..Len(agg) :
              /\ In01WhenDefined(agg[g]["Quality"])
              /\ In01WhenDefined(agg[g]["Availability"])
              /\ In01WhenDefined(agg[g]["OEE"])

\* the data model's 0 <= reject_per_unit <= production_per_unit
RejectsInRange(r) ==
    Le(Num(0), r["Reject per unit"]) /\ Le(r["Reject per unit"], r["Production per unit"])

\* C5 amended: availability lies in [0,1] whenever defined; quality does for
\* records with 0 <= rejects <= production; oee does when, in addition, the
\* performance_ratio of the record (of every member of the group) is in [0,1].
C5_UnitRange ==
    /\ \A i \in 1..Len(df_raw) :
          RejectsInRange(df_raw[i]) => In01WhenDefined(df_raw[i]["Quality"])
    /\ \A i \in 1..Len(df) :
          /\ In01WhenDefined(df[i]["Availability"])
          /\ RejectsInRange(df[i]) => In01WhenDefined(df[i]["Quality"])
          /\ (RejectsInRange(df[i]) /\ In01(df[i]["Performance %"]))
             => In01WhenDefined(df[i]["OEE"])
    /\ AggRan =>
          \A g \in 1..Len(agg) :
              LET S == MembersOf(agg[g])
              IN  /\ In01WhenDefined(agg[g]["Availability"])
                  /\ (\A i \in S : RejectsInRange(df[i]))
                     => In01WhenDefined(agg[g]["Quality"])
                  /\ (\A i \in S : RejectsInRange(df[i]) /\ In01(df[i]["Performance %"]))
                     => In01WhenDefined(agg[g]["OEE"])

\* a record whose unclamped availability would be negative, and a group
\* with a defined OEE whose members all have a performance in [0,1]
C5_Witness ==
    /\ AggRan
    /\ \E i \in 1..Len(df) :
          /\ Gt(df[i]["downtime"], df[i]["Planned hours"])
          /\ df[i]["Availability"] = Num(0)
          /\ df[i]["OEE"] = Num(0)
    /\ \E g \in 1..Len(agg) :
          /\ Cardinality(MembersOf(agg[g])) >= 2
          /\ \A i \in MembersOf(agg[g]) : In01(df[i]["Performance %"])
          /\ Gt(agg[g]["OEE"], Num(0))

(* ------------------------------- C6 ----------------------------------- *)
ZeroProduction(d) == {i \in 1..Len(d) : d[i]["Production per unit"] = Num(0)}

\* C6: a record with production_per_unit = 0 has undefined quality; it stays
\* a member of its group, to whose production and good-units sums it adds 0,
\* and a group of such records only is present with undefined quality.
C6_ZeroProduction ==
    /\ \A i \in ZeroProduction(df_raw) : df_raw[i]["Quality"] = NaN
    /\ \A i \in ZeroProduction(df) :
          /\ df[i]["Quality"] = NaN
          /\ AggRan =>
                \E g \in 1..Len(agg) :
                    LET S == MembersOf(agg[g])
                        others == S \ ZeroProduction(df)
                    IN  /\ i \in S
                        /\ agg[g]["Production_units"] = Total(others, "Production per unit")
                        /\ agg[g]["Good_units"] = Total(others, "Good units")
                        /\ others = {} => agg[g]["Quality"] = NaN

\* a group in which a zero-production record sits beside a productive one
C6_Witness ==
    /\ AggRan
    /\ \E g \in 1..Len(agg) :
          /\ MembersOf(agg[g]) \cap ZeroProduction(df) # {}
          /\ MembersOf(agg[g]) \ ZeroProduction(df) # {}
          /\ ~IsNaN(agg[g]["Quality"])

\* a group made of zero-production records only, beside another group
C6_WitnessAlone ==
    /\ AggRan
    /\ Len(agg) = 2
    /\ \E g \in 1..Len(agg) :
          /\ MembersOf(agg[g]) \subseteq ZeroProduction(df)
          /\ IsNaN(agg[g]["Quality"])

(* ------------------------------- C7 ----------------------------------- *)
\* C7: add_oee_metrics applied to its own output with the same
\* hours_per_day returns records identical in every field.
C7_Idempotent == "reapply" \in ran => twice = df

C7_Witness ==
    /\ "reapply" \in ran
    /\ hours_per_day # DefaultHours
    /\ \E i \in 1..Len(twice) :
          ~IsNaN(twice[i]["OEE"]) /\ twice[i]["Planned hours"] # twice[i]["Planned days"]
    /\ \E i \in 1..Len(twice) : IsNaN(twice[i]["OEE"])

(* ------------------------------- C8 ----------------------------------- *)
KeyOf(r) == [c \in Range(group_cols) |-> r[c]]

\* C8: aggregate_oee returns one group per combination of group-key values
\* present in the records: the groups' keys are those combinations, no key
\* occurs twice, no group is without members, each record is in exactly one
\* group and counted once in its sums; no records give no groups, no error.
C8_OneGroupPerKey ==
    ("aggregate" \in ran /\ MissingCols(group_cols) = {}) =>
        /\ err = "none"
        /\ {KeyOf(agg[g]) : g \in 1..Len(agg)} = {KeyOf(df[i]) : i \in 1..Len(df)}
        /\ Len(agg) = Cardinality({KeyOf(df[i]) : i \in 1..Len(df)})
        /\ \A g \in 1..Len(agg) :
              /\ MembersOf(agg[g]) # {}
              /\ agg[g]["Production_units"] = Total(MembersOf(agg[g]), "Production per unit")
              /\ agg[g]["Reject_units"] = Total(MembersOf(agg[g]), "Reject per unit")
              /\ agg[g]["Downtime"] = Total(MembersOf(agg[g]), "downtime")
              /\ agg[g]["Planned_hours"] = Total(MembersOf(agg[g]), "Planned hours")
        /\ \A i \in 1..Len(df) :
              Cardinality({g \in 1..Len(agg) : i \in MembersOf(agg[g])}) = 1
        /\ df = <<>> => agg = <<>>

\* two grouping columns, two groups that share the machine
C8_Witness ==
    /\ AggRan
    /\ group_cols = <<"Machine", "Product">>
    /\ \E g, h \in 1..Len(agg) :
          /\ g # h
          /\ agg[g]["Machine"] = agg[h]["Machine"]
          /\ Gt(agg[g]["Production_units"], Num(0))
          /\ Gt(agg[h]["Production_units"], Num(0))

\* aggregate_oee on the empty frame
C8_WitnessEmpty == AggRan /\ df = <<>> /\ agg = <<>>

(* ------------------------------- C9 ----------------------------------- *)
BadKeyCall == "aggregate" \in ran /\ MissingCols(group_cols) # {}

C10_DerivedFromOwnFields ==
    /\ Len(df) = Len(df_raw)
    /\ \A i \in 1..Len(df_raw) :
          LET n == df_raw[i]
              r == df[i]
              planned == Mul(n["Working days"], Num(hours_per_day))
              avail == IF Gt(planned, Num(0))
                       THEN Clamp01(Sub(Num(1), Div(n["downtime"], planned)))
                       ELSE NaN
          IN  /\ DOMAIN n = LoadedColumns
              /\ n["Good units"] = Sub(n["Production per unit"], n["Reject per unit"])
              /\ n["Performance"] = n["Performance %"]
              /\ n["Planned days"] = n["Working days"]
              /\ \A c \in LoadedColumns : r[c] = n[c]
              /\ r["Planned hours"] = planned
              /\ r["Availability"] = avail
              /\ r["OEE"] = Mul(Mul(avail, n["Performance %"]), n["Quality"])

\* the hours were changed away from the default, and a record's
\* availability depends on them
C10_Witness ==
    /\ hours_per_day # DefaultHours
    /\ \E i \in 1..Len(df) :
          /\ ~IsNaN(df[i]["OEE"])
          /\ df[i]["Planned hours"] # df[i]["Planned days"]
          /\ Gt(df[i]["Availability"], Num(0))
          /\ Gt(Num(1), df[i]["Availability"])
====
